---- MODULE Spec2Model ----
(***************************************************************************)
(* hikari: ambient-light backlight daemon (src/src/main.rs).               *)
(*                                                                         *)
(* Two threads share an unbounded FIFO channel of u32 brightness targets:  *)
(*   - the monitor thread (supervisor loop of main around moniter_lux)     *)
(*     claims the light sensor, reads the illuminance and sends            *)
(*     lux_to_brightness(level);                                           *)
(*   - the update thread (set_brightness) receives targets and ramps the   *)
(*     backlight toward them in steps of 10 through login1.                *)
(* The main thread joins the update thread and unwraps its result.         *)
(***************************************************************************)
EXTENDS Integers, Sequences, FiniteSets, TLC

(* ---------------------------- constants -------------------------------- *)
MAX == 3000
MID == 2000
MIN == 1125
MAX_LUX == 2500
MIN_LUX == 400

\* step size of the ramp (literal 10 in set_brightness)
STEP == 10
\* time-warp threshold, seconds (Duration::from_secs(20))
WARP_SECS == 20

\* Option::None of `now: Option<u32>`; also "no value yet" elsewhere
Unset == 0 - 1

(* ----------------------------- bounds ---------------------------------- *)
\* the mpsc channel is unbounded; the model lets at most MaxQueue targets wait
MaxQueue == 2

\* illuminance readings returned by light_level (whole lux)
LuxValues == {400, 1449, 2500, 2600}
\* elapsed seconds observed by now.elapsed() at the top of an iteration
DurValues == {5, 20, 21}
\* readings of a dim room, whose targets 1125, 1135 and 1140 are a few
\* steps apart
NearLux == {400, 412, 418}

\* lux_to_brightness is evaluated on every whole lux in 0..MaxLux
MaxLux == 3000
\* distances between the arguments of two successive evaluations
LuxDeltas == {0, 1, 50, 2100}

(* ------------------------ lux_to_brightness ---------------------------- *)
\* The f64 expression  (1-t)^2*MIN + 2t(1-t)*MID + t^2*MAX  with
\* t = d/R, d = lux - MIN_LUX, R = MAX_LUX - MIN_LUX, equals
\*   ((R-d)^2*MIN + 2d(R-d)*MID + d^2*MAX) / R^2.
\* MIN, MID, MAX and R^2 are all multiples of 125; the common factor is
\* divided out so that the numerator stays below 2^31.  floor() of the
\* quotient is the integer division.  (For every whole lux in 0..3000 this
\* equals the f64 evaluation followed by floor.)
\* mutant: the factor 2 of the middle Bernstein term is missing
BezierFloor_nofactor(lux) ==
    LET R == MAX_LUX - MIN_LUX
        d == lux - MIN_LUX
        e == R - d
        num == e * e * (MIN \div 125) + d * e * (MID \div 125)
                 + d * d * (MAX \div 125)
    IN  num \div ((R * R) \div 125)

BezierFloor(lux) ==
    LET R == MAX_LUX - MIN_LUX
        d == lux - MIN_LUX
        e == R - d
        num == e * e * (MIN \div 125) + 2 * d * e * (MID \div 125)
                 + d * d * (MAX \div 125)
    IN  num \div ((R * R) \div 125)

\* mutant: the two clamp results are exchanged
lux_to_brightness_swapped(lux) ==
    IF lux > MAX_LUX THEN MIN
    ELSE IF lux <= MIN_LUX THEN MAX
    ELSE BezierFloor(lux)

\* mutant: the upper clamp is missing
lux_to_brightness_noclamp(lux) ==
    IF lux <= MIN_LUX THEN MIN ELSE BezierFloor(lux)

lux_to_brightness(lux) ==
    IF lux > MAX_LUX THEN MAX
    ELSE IF lux <= MIN_LUX THEN MIN
    ELSE BezierFloor(lux)

(* ------------------------ set_brightness helpers ----------------------- *)
abs_diff(a, b) == IF a > b THEN a - b ELSE b - a

\* mutant: the received value is consumed but not adopted
TryRecvTarget_keep(q, t) == t

\* r.try_recv(): take one queued value if there is one, else keep the target
TryRecvTarget(q, t) == IF q # <<>> THEN Head(q) ELSE t

\* mutant: whatever else is queued is thrown away
TryRecvRest_clear(q) == <<>>

TryRecvRest(q) == IF q # <<>> THEN Tail(q) ELSE q

\* mutant: the update thread holds only on the target itself
Holding_exact(cur, t) == cur # Unset /\ cur = t

\* mutant: the band includes a difference of exactly one step
Holding_le(cur, t) == cur # Unset /\ abs_diff(cur, t) <= STEP

\* the `continue` branch: current is set and within one step of the target
Holding(cur, t) == cur # Unset /\ abs_diff(cur, t) < STEP

\* mutant: the ramp moves two steps at a time
NewBrightness_double(cur, t) ==
    IF cur # Unset
    THEN IF cur > t THEN cur - 2 * STEP ELSE cur + 2 * STEP
    ELSE t

\* mutant: no ramp, every actuation jumps to the target
NewBrightness_jump(cur, t) == t

\* the value of `new` when the tick does not `continue`
NewBrightness(cur, t) ==
    IF cur # Unset
    THEN IF cur > t THEN cur - STEP ELSE cur + STEP
    ELSE t

\* mutant: a failed call resets `now`
NowAfterCall_reset(ok, new) == IF ok THEN new ELSE Unset

\* `now = Some(new)` after the login1 call, whatever its result
NowAfterCall(ok, new) == new

(* ------------------------------ state ---------------------------------- *)
VARIABLES
    process,       \* "running" | "exited"
    queue,         \* the channel: targets sent and not yet received
    monPc,         \* monitor thread position
    connected,     \* monitor session holds a bus connection and proxy
    claimed,       \* claim_light succeeded in the current monitor session
    level,         \* lux read by light_level and not yet sent (Unset if none)
    dur,           \* elapsed seconds observed by the last time check
    monResult,     \* in cooldown: what moniter_lux returned ("none" otherwise)
    actPc,         \* update thread position
    actResult,     \* what set_brightness returned ("none" while it runs)
    now,           \* set_brightness: `now` (Unset = None)
    target,        \* set_brightness: `target` (Unset before recv)
    lastCall,      \* outcome of the last tick: "none" | "skip" | "ok" | "fail"
    lastSent,      \* brightness passed to login1 by the last call
    lastPublished, \* last value the monitor sent
    pubCount,      \* values sent so far: 0, 1, or 2 for "two or more"
    pubAtFirst,    \* pubCount at the first login1 call (0 before it)
    mapLux,        \* lux_to_brightness: the argument of the current call
    mapOut,        \* lux_to_brightness: its result (Unset before the call)
    mapPrevLux,    \* argument of the previous call (Unset if none)
    mapPrevOut     \* result of the previous call (Unset if none)

vars == <<process, queue, monPc, connected, claimed, level, dur, monResult,
          actPc, actResult, now, target, lastCall, lastSent, lastPublished,
          pubCount, pubAtFirst, mapLux, mapOut, mapPrevLux, mapPrevOut>>

monVars == <<monPc, connected, claimed, level, dur, monResult>>
actVars == <<actPc, actResult, now, target, lastCall, lastSent>>
pubVars == <<lastPublished, pubCount>>
mapVars == <<mapLux, mapOut, mapPrevLux, mapPrevOut>>

Brightness == MIN..MAX

Init ==
    /\ process = "running"
    /\ queue = <<>>
    /\ monPc = "connect"
    /\ connected = FALSE
    /\ claimed = FALSE
    /\ level = Unset
    /\ dur = 0
    /\ monResult = "none"
    /\ actPc = "connect"
    /\ actResult = "none"
    /\ now = Unset
    /\ target = Unset
    /\ lastCall = "none"
    /\ lastSent = Unset
    /\ lastPublished = Unset
    /\ pubCount = 0
    /\ pubAtFirst = 0
    /\ mapLux = Unset
    /\ mapOut = Unset
    /\ mapPrevLux = Unset
    /\ mapPrevOut = Unset

(* ------------------------- monitor thread ------------------------------ *)
\* moniter_lux returns `res` to the supervisor closure: the session's
\* connection and proxy are dropped, an Err is logged, sleep 10 s
EndSession(res, d) ==
    /\ monPc' = "cooldown"
    /\ monResult' = res
    /\ connected' = FALSE
    /\ claimed' = FALSE
    /\ level' = Unset
    /\ dur' = d

\* Connection::system()? and SensorsProxyBlocking::new(&connection)?
MonConnect ==
    /\ process = "running"
    /\ monPc = "connect"
    /\ \E ok \in BOOLEAN :
         IF ok
         THEN /\ monPc' = "first_claim"
              /\ connected' = TRUE
              /\ UNCHANGED <<claimed, level, dur, monResult>>
         ELSE EndSession("sensor_error", 0)
    /\ UNCHANGED <<mapVars, process, queue, actVars, pubVars, pubAtFirst>>

\* hadess.claim_light()? (the first claim), sleep 5 s, now = SystemTime::now()
MonFirstClaim ==
    /\ process = "running"
    /\ monPc = "first_claim"
    /\ \E ok \in BOOLEAN :
         IF ok
         THEN /\ monPc' = "check"
              /\ claimed' = TRUE
              /\ UNCHANGED <<connected, level, dur, monResult>>
         ELSE EndSession("sensor_error", 0)
    /\ UNCHANGED <<mapVars, process, queue, actVars, pubVars, pubAtFirst>>

\* mutant: the time warp is not acted upon
MonCheck_nowarp ==
    /\ process = "running"
    /\ monPc = "check"
    /\ \E d \in DurValues :
         /\ monPc' = "claim"
         /\ dur' = d
         /\ UNCHANGED <<connected, claimed, level, monResult>>
    /\ UNCHANGED <<mapVars, process, queue, actVars, pubVars, pubAtFirst>>

\* top of the loop: dur = now.elapsed(); return Ok(()) on a time warp
MonCheck ==
    /\ process = "running"
    /\ monPc = "check"
    /\ \E d \in DurValues :
         IF d > WARP_SECS
         THEN EndSession("ok", d)
         ELSE /\ monPc' = "claim"
              /\ dur' = d
              /\ UNCHANGED <<connected, claimed, level, monResult>>
    /\ UNCHANGED <<mapVars, process, queue, actVars, pubVars, pubAtFirst>>

\* hadess.claim_light()? inside the loop (`dur` is dead from here on)
MonClaim ==
    /\ process = "running"
    /\ monPc = "claim"
    /\ \E ok \in BOOLEAN :
         IF ok
         THEN /\ monPc' = "read"
              /\ dur' = 0
              /\ UNCHANGED <<connected, claimed, level, monResult>>
         ELSE EndSession("sensor_error", 0)
    /\ UNCHANGED <<mapVars, process, queue, actVars, pubVars, pubAtFirst>>

\* let level = hadess.light_level()?
MonRead ==
    /\ process = "running"
    /\ monPc = "read"
    /\ \/ \E lux \in LuxValues :
            /\ monPc' = "send"
            /\ level' = lux
            /\ UNCHANGED <<connected, claimed, dur, monResult>>
       \/ EndSession("sensor_error", 0)
    /\ UNCHANGED <<mapVars, process, queue, actVars, pubVars, pubAtFirst>>

\* s.send(lux_to_brightness(level))? ; now = SystemTime::now(); sleep 5 s.
\* send fails iff the receiver was dropped, i.e. set_brightness has returned.
MonSend ==
    /\ process = "running"
    /\ monPc = "send"
    /\ IF actPc = "returned"
       THEN /\ EndSession("send_error", 0)
            /\ UNCHANGED <<queue, pubVars>>
       ELSE /\ Len(queue) < MaxQueue
            /\ queue' = Append(queue, lux_to_brightness(level))
            /\ lastPublished' = lux_to_brightness(level)
            /\ pubCount' = IF pubCount < 2 THEN pubCount + 1 ELSE 2
            /\ monPc' = "check"
            /\ level' = Unset
            /\ UNCHANGED <<connected, claimed, dur, monResult>>
    /\ UNCHANGED <<mapVars, process, actVars, pubAtFirst>>

\* mutant: the supervisor re-enters the polling loop of the old session
MonRestart_samesession ==
    /\ process = "running"
    /\ monPc = "cooldown"
    /\ monPc' = "check"
    /\ monResult' = "none"
    /\ dur' = 0
    /\ UNCHANGED <<connected, claimed, level>>
    /\ UNCHANGED <<mapVars, process, queue, actVars, pubVars, pubAtFirst>>

\* thread::sleep(10 s); info!("next round!"); loop { moniter_lux(s.clone()) }
MonRestart ==
    /\ process = "running"
    /\ monPc = "cooldown"
    /\ monPc' = "connect"
    /\ monResult' = "none"
    /\ dur' = 0
    /\ UNCHANGED <<connected, claimed, level>>
    /\ UNCHANGED <<mapVars, process, queue, actVars, pubVars, pubAtFirst>>

(* -------------------------- update thread ------------------------------ *)
\* Connection::system()? and Login1ProxyBlocking::new(&connection)?
ActConnect ==
    /\ process = "running"
    /\ actPc = "connect"
    /\ \E r \in {"ok", "connection_error", "proxy_error"} :
         IF r = "ok"
         THEN /\ actPc' = "recv"
              /\ UNCHANGED actResult
         ELSE /\ actPc' = "returned"
              /\ actResult' = r
    /\ UNCHANGED <<now, target, lastCall, lastSent>>
    /\ UNCHANGED <<mapVars, process, queue, monVars, pubVars, pubAtFirst>>

\* mutant: the first target is not waited for (MIN when nothing is queued)
ActRecv_noblock ==
    /\ process = "running"
    /\ actPc = "recv"
    /\ target' = IF queue # <<>> THEN Head(queue) ELSE MIN
    /\ queue' = IF queue # <<>> THEN Tail(queue) ELSE queue
    /\ actPc' = "loop"
    /\ UNCHANGED <<actResult, now, lastCall, lastSent>>
    /\ UNCHANGED <<mapVars, process, monVars, pubVars, pubAtFirst>>

\* let mut target = r.recv()?  -- blocks while the channel is empty.  The
\* monitor closure owns a Sender for the life of the process, so recv never
\* reports a disconnected channel.
ActRecv ==
    /\ process = "running"
    /\ actPc = "recv"
    /\ queue # <<>>
    /\ target' = Head(queue)
    /\ queue' = Tail(queue)
    /\ actPc' = "loop"
    /\ UNCHANGED <<actResult, now, lastCall, lastSent>>
    /\ UNCHANGED <<mapVars, process, monVars, pubVars, pubAtFirst>>

\* mutant: the tick waits for a new target (recv instead of try_recv)
ActTick_blocking ==
    /\ process = "running"
    /\ actPc = "loop"
    /\ queue # <<>>
    /\ target' = Head(queue)
    /\ queue' = Tail(queue)
    /\ IF Holding(now, target')
       THEN /\ lastCall' = "skip"
            /\ UNCHANGED <<now, lastSent, pubAtFirst>>
       ELSE \E ok \in BOOLEAN :
              /\ lastSent' = NewBrightness(now, target')
              /\ lastCall' = IF ok THEN "ok" ELSE "fail"
              /\ now' = NowAfterCall(ok, NewBrightness(now, target'))
              /\ pubAtFirst' = IF lastSent = Unset THEN pubCount
                                ELSE pubAtFirst
    /\ UNCHANGED <<actPc, actResult>>
    /\ UNCHANGED <<mapVars, process, monVars, pubVars>>

\* one iteration of the loop: sleep 50 ms, try_recv, compute `new`,
\* login1.set_brightness(..).map_err(log).ok(), now = Some(new)
ActTick ==
    /\ process = "running"
    /\ actPc = "loop"
    /\ target' = TryRecvTarget(queue, target)
    /\ queue' = TryRecvRest(queue)
    /\ IF Holding(now, target')
       THEN /\ lastCall' = "skip"
            /\ UNCHANGED <<now, lastSent, pubAtFirst>>
       ELSE \E ok \in BOOLEAN :
              /\ lastSent' = NewBrightness(now, target')
              /\ lastCall' = IF ok THEN "ok" ELSE "fail"
              /\ now' = NowAfterCall(ok, NewBrightness(now, target'))
              /\ pubAtFirst' = IF lastSent = Unset THEN pubCount
                                ELSE pubAtFirst
    /\ UNCHANGED <<actPc, actResult>>
    /\ UNCHANGED <<mapVars, process, monVars, pubVars>>

(* --------------------------- main thread ------------------------------- *)
\* update_t.join().unwrap().unwrap(): panics on the Err set_brightness returned
MainJoin ==
    /\ process = "running"
    /\ actPc = "returned"
    /\ process' = "exited"
    /\ UNCHANGED <<mapVars, queue, monVars, actVars, pubVars, pubAtFirst>>

Next ==
    \/ MonConnect
    \/ MonFirstClaim
    \/ MonCheck
    \/ MonClaim
    \/ MonRead
    \/ MonSend
    \/ MonRestart
    \/ ActConnect
    \/ ActRecv
    \/ ActTick
    \/ MainJoin

Spec == Init /\ [][Next]_vars

(* ------------------- the daemon in a dim room --------------------------- *)
\* let level = hadess.light_level()? with readings from NearLux
MonReadNear ==
    /\ process = "running"
    /\ monPc = "read"
    /\ \/ \E lux \in NearLux :
            /\ monPc' = "send"
            /\ level' = lux
            /\ UNCHANGED <<connected, claimed, dur, monResult>>
       \/ EndSession("sensor_error", 0)
    /\ UNCHANGED <<mapVars, process, queue, actVars, pubVars, pubAtFirst>>

NextNear ==
    \/ MonConnect
    \/ MonFirstClaim
    \/ MonCheck
    \/ MonClaim
    \/ MonReadNear
    \/ MonSend
    \/ MonRestart
    \/ ActConnect
    \/ ActRecv
    \/ ActTick
    \/ MainJoin

SpecNear == Init /\ [][NextNear]_vars

\* the update thread is never starved: its blocking recv returns once a
\* value is queued and its loop ticks every 50 ms.  Nothing is assumed of
\* the monitor, which may stay in a cooldown or stop for good.
FairNear == SpecNear /\ WF_vars(ActRecv) /\ WF_vars(ActTick)

(* ------------- lux_to_brightness on its own (pure function) ------------ *)
\* the threads are not started; lux_to_brightness is called on an arbitrary
\* whole lux value
InitMap ==
    /\ process = "running"
    /\ queue = <<>>
    /\ monPc = "connect"
    /\ connected = FALSE
    /\ claimed = FALSE
    /\ level = Unset
    /\ dur = 0
    /\ monResult = "none"
    /\ actPc = "connect"
    /\ actResult = "none"
    /\ now = Unset
    /\ target = Unset
    /\ lastCall = "none"
    /\ lastSent = Unset
    /\ lastPublished = Unset
    /\ pubCount = 0
    /\ pubAtFirst = 0
    /\ mapLux \in 0..MaxLux
    /\ mapOut = Unset
    /\ mapPrevLux = Unset
    /\ mapPrevOut = Unset

sysVars == <<process, queue, monVars, actVars, pubVars, pubAtFirst>>

\* the call lux_to_brightness(mapLux)
MapApply ==
    /\ mapOut = Unset
    /\ mapOut' = lux_to_brightness(mapLux)
    /\ UNCHANGED <<mapLux, mapPrevLux, mapPrevOut, sysVars>>

\* the next call has an argument that is not smaller
MapNext ==
    /\ mapOut # Unset
    /\ \E d \in LuxDeltas :
         /\ mapLux + d <= MaxLux
         /\ mapLux' = mapLux + d
    /\ mapPrevLux' = mapLux
    /\ mapPrevOut' = mapOut
    /\ mapOut' = Unset
    /\ UNCHANGED sysVars

NextMap ==
    \/ MapApply
    \/ MapNext

SpecMap == InitMap /\ [][NextMap]_vars

TypeOK ==
    /\ process \in {"running", "exited"}
    /\ Len(queue) <= MaxQueue
    /\ monPc \in {"connect", "first_claim", "check", "claim", "read", "send",
                  "cooldown"}
    /\ monResult \in {"none", "ok", "sensor_error", "send_error"}
    /\ actPc \in {"connect", "recv", "loop", "returned"}
    /\ actResult \in {"none", "connection_error", "proxy_error"}
    /\ now \in Brightness \cup {Unset}
    /\ target \in Brightness \cup {Unset}
    /\ lastCall \in {"none", "skip", "ok", "fail"}
    /\ pubCount \in 0..2
    /\ pubAtFirst \in 0..2

(* ======================================================================= *)
(*                               Claims                                    *)
(* ======================================================================= *)

\* the step in which login1.set_brightness is called for the first time
FirstActuation == lastSent = Unset /\ lastSent' # Unset

\* C1 (as stated): when more than one target was published before the first
\* actuation, the first value passed to login1 is the first published target.
\* Before the first actuation `target` holds what r.recv() returned, i.e. the
\* first published target, and `queue` holds the later ones in publish order.
C1_FirstAppliedIsFirstPublished ==
    [][(FirstActuation /\ pubAtFirst' > 1) => lastSent' = target]_vars

\* C1 (amended): the first value passed to login1 is the target held after the
\* first tick's try_recv, applied without ramp: the second published target
\* when more than one was published before the first actuation, the only one
\* otherwise.  Every later change of the current value is exactly one STEP
\* and brings it one STEP closer to the target held on that tick.
C1_FirstAppliedIsTargetAfterRead ==
  [][
    /\ (  FirstActuation =>
            /\ now = Unset
            /\ lastSent' = now'
            /\ now' = target'
            /\ pubAtFirst' > 1 => (queue # <<>> /\ now' = Head(queue))
            /\ pubAtFirst' = 1 => (queue = <<>> /\ now' = target))
    /\ (  (now # Unset /\ now' # now) =>
            /\ lastSent' = now'
            /\ abs_diff(now', now) = STEP
            /\ abs_diff(now', target') = abs_diff(now, target') - STEP)
  ]_vars

\* two targets were published before the first actuation, and the ramp
\* toward a later target is under way
C1_Witness ==
    /\ pubAtFirst = 2
    /\ lastCall \in {"ok", "fail"}
    /\ now # Unset
    /\ now # target

\* C2 (as stated): after every tick's try_recv the target equals the value
\* most recently published by the monitor.
C2_LatestValueWins ==
    [][ActTick => target' = lastPublished']_vars

\* C3 (as stated): after a failed login1 call the current brightness is reset
\* to unset (the session is restarted).
C3_FailureResetsCurrent ==
    lastCall = "fail" => now = Unset

\* C3 (amended): a failed login1 call is logged and ignored: the update
\* thread stays in its loop (no restart, no cooldown) and the current
\* brightness is the value it tried to apply, not unset.
C3_FailureIgnored ==
    lastCall = "fail" =>
        /\ actPc = "loop"
        /\ actResult = "none"
        /\ now # Unset
        /\ now = lastSent

\* the last login1 call failed
C3_Witness ==
    /\ lastCall = "fail"
    /\ now # Unset
    /\ now # target

\* C4 (as stated): the process never exits because of a service error of the
\* update thread (bus connection or proxy creation).
C4_NoExitOnServiceError ==
    process = "exited" => actResult \notin {"connection_error", "proxy_error"}

\* C5: every published target (queued, last sent, or held by the update
\* thread) and the current brightness, once set, lie in [MIN, MAX].
C5_BrightnessInRange ==
    /\ \A i \in DOMAIN queue : queue[i] \in Brightness
    /\ lastPublished # Unset => lastPublished \in Brightness
    /\ target # Unset => target \in Brightness
    /\ now # Unset => now \in Brightness
    /\ lastSent # Unset => lastSent \in Brightness

\* the maximum target has been published and the ramp is strictly
\* inside the range
C5_Witness ==
    /\ lastPublished = MAX
    /\ now # Unset
    /\ now > MIN
    /\ now < MAX
    /\ target \notin {MIN, MAX, Unset}

\* C6: in a step in which the current brightness is already set, it is
\* unchanged or changes by exactly STEP.
C6_StepAtMostTen ==
    [][now # Unset => (now' = now \/ abs_diff(now', now) = STEP)]_vars

\* a step was applied while the target was more than one step away
C6_Witness ==
    /\ now # Unset
    /\ target # Unset
    /\ lastCall \in {"ok", "fail"}
    /\ abs_diff(now, target) > STEP

\* C7: in a tick with the current brightness set, if it is within STEP of the
\* target held after the tick's try_recv, no login1 call is made and nothing
\* changes; otherwise login1 is called and the current value moves by STEP.
C7_IdleInBand ==
    [][(ActTick /\ now # Unset) =>
          IF abs_diff(now, target') < STEP
          THEN /\ lastCall' = "skip"
               /\ now' = now
               /\ lastSent' = lastSent
          ELSE /\ lastCall' \in {"ok", "fail"}
               /\ lastSent' = now'
               /\ abs_diff(now', now) = STEP]_vars

\* the update thread idles in the band without having hit the target
C7_Witness ==
    /\ lastCall = "skip"
    /\ now # Unset
    /\ now # target
    /\ abs_diff(now, target) < STEP

\* C8: a sensor-service failure ends the monitor session without publishing;
\* the supervisor goes through the cooldown and starts a session that
\* connects and claims the sensor before any read or publish.
C8_SensorFailureRestartsSession ==
  [][
    /\ (  (monResult # "sensor_error" /\ monResult' = "sensor_error") =>
            /\ monPc' = "cooldown"
            /\ ~connected' /\ ~claimed'
            /\ level' = Unset
            /\ queue' = queue
            /\ lastPublished' = lastPublished)
    /\ (  (monPc = "cooldown" /\ monPc' # "cooldown") =>
            (monPc' = "connect" /\ ~connected' /\ ~claimed'))
    /\ (  (monPc' \in {"read", "send"} \/ lastPublished' # lastPublished) =>
            (connected /\ claimed /\ monPc \in {"claim", "read", "send"}))
    /\ (  (monPc' = "claim" /\ monPc # "claim") => monPc = "check")
    /\ (  (monPc' = "check" /\ monPc # "check") =>
            (monPc \in {"first_claim", "send"} /\ claimed'))
    /\ (  (claimed' /\ ~claimed) => (monPc = "first_claim" /\ connected))
    /\ (  (connected' /\ ~connected) => monPc = "connect")
  ]_vars

\* the session has just ended on a sensor-service error
C8_Witness ==
    /\ monPc = "cooldown"
    /\ monResult = "sensor_error"
    /\ lastPublished # Unset

\* C9: when the time check observes more than WARP_SECS, the iteration reads
\* and publishes nothing, the session ends, and a read happens again only in
\* a session that has claimed the sensor.
C9_TimeWarpEndsSession ==
  [][
    /\ (  (monPc = "check" /\ monPc' # "check") =>
            IF dur' > WARP_SECS
            THEN /\ monPc' = "cooldown"
                 /\ monResult' = "ok"
                 /\ ~connected' /\ ~claimed'
                 /\ level' = Unset
                 /\ queue' = queue
                 /\ lastPublished' = lastPublished
            ELSE monPc' = "claim")
    /\ (  monPc' \in {"read", "send"} => (claimed' /\ dur' <= WARP_SECS))
    /\ (  monPc' \in {"cooldown", "connect"} => ~claimed')
  ]_vars

\* a time warp has just ended the session
C9_Witness ==
    /\ monPc = "cooldown"
    /\ monResult = "ok"
    /\ dur > WARP_SECS

\* C10 (as stated): after the monitor's send failed on the dropped receiver
\* the monitor is not restarted.
C10_SendFailureFatal ==
    [][(monPc = "cooldown" /\ monResult = "send_error") =>
          monPc' = "cooldown"]_vars

\* C11 (as stated): lux_to_brightness(1450) = 1531.
C11_Midpoint1531 ==
    (mapLux = 1450 /\ mapOut # Unset) => mapOut = 1531

\* C11 (amended): lux_to_brightness(1450) = 2031, the floor of
\* 0.25*1125 + 0.5*2000 + 0.25*3000 = 2031.25.
C11_Midpoint2031 ==
    (mapLux = 1450 /\ mapOut # Unset) => mapOut = 2031

\* lux_to_brightness has been called on the midpoint
C11_Witness ==
    /\ mapLux = 1450
    /\ mapOut # Unset

\* C12: of two successive calls with arguments a <= b the second result is
\* not smaller than the first.
C12_Monotone ==
    (mapPrevOut # Unset /\ mapOut # Unset /\ mapPrevLux <= mapLux) =>
        mapPrevOut <= mapOut

\* two calls on either side of the MAX_LUX threshold
C12_Witness ==
    /\ mapPrevOut # Unset
    /\ mapOut # Unset
    /\ mapPrevLux <= MAX_LUX
    /\ mapPrevLux > MIN_LUX
    /\ mapLux > MAX_LUX

\* C13: the result is MIN for every lux <= MIN_LUX and MAX for every
\* lux > MAX_LUX.
C13_Clamps ==
    mapOut # Unset =>
        /\ mapLux <= MIN_LUX => mapOut = MIN
        /\ mapLux > MAX_LUX => mapOut = MAX

\* a call above the upper threshold
C13_Witness ==
    /\ mapLux > MAX_LUX
    /\ mapOut = MAX

\* C14 (as stated): the tracked current brightness is always the value last
\* applied by a successful login1 call; equivalently, it changes only in a
\* step whose login1 call succeeds with that value.
C14_CurrentIsLastApplied ==
    [][now' # now => (lastCall' = "ok" /\ lastSent' = now')]_vars

\* C14 (amended): the tracked current brightness is always the value last
\* passed to login1.set_brightness, whether or not that call succeeded.
C14_CurrentIsLastSent ==
    /\ now = lastSent
    /\ lastCall \in {"ok", "fail"} => now # Unset
    /\ lastCall = "none" => now = Unset

\* the first call failed and the update thread holds at the target
C14_Witness ==
    /\ lastCall = "fail"
    /\ now = lastSent
    /\ now = target

\* C15: a tick that steps (current set, at least STEP away from the target
\* held after try_recv) brings the current value exactly STEP closer and
\* never to the other side of the target.
C15_NoOvershoot ==
    [][(ActTick /\ now # Unset /\ abs_diff(now, target') >= STEP) =>
          /\ abs_diff(now', target') = abs_diff(now, target') - STEP
          /\ now < target' => (now' > now /\ now' <= target')
          /\ now > target' => (now' < now /\ now' >= target')]_vars

\* a step has landed strictly inside the band around the target
C15_Witness ==
    /\ lastCall \in {"ok", "fail"}
    /\ now # Unset
    /\ now # target
    /\ abs_diff(now, target) < STEP

\* C16: no login1 call is made before the monitor has published a target:
\* the update thread enters its loop only by receiving a queued value, and
\* the first value it applies is the received target.
C16_NoCallBeforePublish ==
  [][
    /\ (  (actPc = "recv" /\ actPc' = "loop") =>
            /\ queue # <<>>
            /\ pubCount >= 1
            /\ target' = Head(queue))
    /\ (  lastSent' # lastSent => (actPc = "loop" /\ pubCount >= 1))
    /\ (  FirstActuation =>
            /\ lastSent' = target'
            /\ queue' = <<>> => lastSent' = lastPublished)
  ]_vars

\* the only published target has been applied
C16_Witness ==
    /\ pubAtFirst = 1
    /\ pubCount = 1
    /\ lastCall = "ok"
    /\ lastSent = lastPublished

\* the monitor publishes in this step
Publishes == Len(queue') > Len(queue)

\* C17: if from some point on the monitor publishes nothing and the update
\* thread is in its loop, it eventually stays in the holding state with the
\* channel drained, and makes no further login1 call.
C17_StaleTargetConverges ==
    (<>[][~Publishes]_vars /\ <>(actPc = "loop")) =>
        <>[](/\ queue = <<>>
             /\ now # Unset
             /\ abs_diff(now, target) < STEP
             /\ lastCall = "skip")

\* the monitor is down and the update thread holds next to a stale target
C17_Witness ==
    /\ monPc = "cooldown"
    /\ queue = <<>>
    /\ lastCall = "skip"
    /\ now # Unset
    /\ now # target
    /\ target = lastPublished

\* C18: while the process runs some thread can always take a step; a send is
\* never held up by the update thread (below the bound of the model), and
\* the update thread waits only in recv on an empty channel before its first
\* target: in its loop a tick is possible whatever the monitor is doing.
C18_NoCrossWaiting ==
    /\ process = "running" => ENABLED NextNear
    /\ (process = "running" /\ monPc = "send" /\ Len(queue) < MaxQueue)
          => ENABLED MonSend
    /\ (process = "running" /\ actPc = "loop") => ENABLED ActTick
    /\ (process = "running" /\ actPc = "recv" /\ ~ENABLED ActRecv)
          => (queue = <<>> /\ target = Unset /\ now = Unset)

\* the update thread is in its loop with nothing queued while the monitor
\* sits in the cooldown after an error
C18_Witness ==
    /\ process = "running"
    /\ actPc = "loop"
    /\ queue = <<>>
    /\ monPc = "cooldown"
    /\ monResult = "sensor_error"
    /\ lastCall \in {"ok", "fail"}

\* C19: the channel is first-in first-out and a tick takes at most one
\* value: a send appends at the tail, recv and try_recv take the head and
\* leave the rest; and once the update thread is receiving, every queued
\* value eventually becomes its target.
C19_FifoOnePerTick ==
    /\ [][Publishes => queue' = Append(queue, lastPublished')]_vars
    /\ [][(actPc = "recv" /\ actPc' = "loop") =>
            (target' = Head(queue) /\ queue' = Tail(queue))]_vars
    /\ [][ActTick =>
            IF queue # <<>>
            THEN target' = Head(queue) /\ queue' = Tail(queue)
            ELSE target' = target /\ queue' = queue]_vars
    /\ [][Len(queue') < Len(queue) => queue' = Tail(queue)]_vars
    /\ \A v \in {lux_to_brightness(l) : l \in NearLux} :
         (actPc \in {"recv", "loop"} /\ \E i \in DOMAIN queue : queue[i] = v)
            ~> (target = v)

\* two different values wait in the channel behind the current target
C19_Witness ==
    /\ actPc = "loop"
    /\ Len(queue) = 2
    /\ queue[1] # queue[2]
    /\ target # queue[1]

====
